---- MODULE Spec2Model ----
(***************************************************************************)
(* Model of package resource (pkg/framework/resource): discovery and       *)
(* indexing of API resources (parse.go), the catalog type and its Filter   *)
(* operation (resources.go), and the composable filters (filter.go).       *)
(*                                                                         *)
(* Go strings are modelled as sequences of one-character strings so that   *)
(* strings.Split and strings.HasSuffix are computed, not assumed.          *)
(***************************************************************************)
EXTENDS Integers, Sequences, FiniteSets, TLC

VARIABLES
    gvs,            \* what discovery.ServerResources() lists: []*v1.APIResourceList
    apiGroup,       \* Parser.apiGroup
    apiVersion,     \* Parser.apiVersion
    discoveryErr,   \* the error ServerResources() returned to the last Resources() call
    resources,      \* the catalog returned by the last Parser.Resources() call
    err,            \* the error returned by the last Parser.Resources() call
    Rheap,          \* heap of Resource objects, by address
    Sheap,          \* heap of SubResource objects, by address
    arrays,         \* backing arrays of the SubResources slices
    filtered,       \* the catalog returned by the last Resources.Filter call
    op,             \* the last operation performed
    filterArg,      \* the Filter passed to the last Resources.Filter call
    receiver,       \* the catalog the last Filter call was made on
    filterInput,    \* contents of that catalog before the call
    discovered,     \* contents of the catalog as Parser.Resources() returned it
    edits,          \* number of caller edits made to filtered copies
    groupVersion,   \* argument of splitGroupVersion
    splitResult,    \* result of splitGroupVersion
    compFilter,     \* a composed filter under evaluation
    compEntity,     \* the Resource / SubResource pair it is evaluated on
    compResult      \* the two verdicts

parserVars  == <<gvs, apiGroup, apiVersion, discoveryErr, resources, err, Rheap, Sheap, arrays, discovered>>
filterVars  == <<filtered, filterArg, receiver, filterInput, edits>>
splitVars   == <<groupVersion, splitResult>>
compVars    == <<compFilter, compEntity, compResult>>
vars        == <<parserVars, filterVars, splitVars, compVars, op>>

(***************************************************************************)
(* Bounds of the model.                                                    *)
(***************************************************************************)
MaxGroupVersionLen == 4
MaxAPIResources == 3
MaxFilterNodes == 4
MaxEdits == 1

(***************************************************************************)
(* Strings.                                                                *)
(***************************************************************************)
RECURSIVE SeqsUpTo(_, _)
SeqsUpTo(S, n) ==
    IF n = 0 THEN {<<>>}
    ELSE LET shorter == SeqsUpTo(S, n - 1)
         IN  shorter \cup {Append(s, c) : s \in shorter, c \in S}

Slash == "/"

\* Index of the first occurrence of character c in s, or 0.
RECURSIVE IndexFrom(_, _, _)
IndexFrom(s, c, i) ==
    IF i > Len(s) THEN 0
    ELSE IF s[i] = c THEN i
    ELSE IndexFrom(s, c, i + 1)

\* strings.Split(s, sep) for a one-character separator: Split("", "/") is [""].
RECURSIVE Split(_, _)
Split(s, sep) ==
    LET i == IndexFrom(s, sep, 1)
    IN  IF i = 0 THEN <<s>>
        ELSE <<SubSeq(s, 1, i - 1)>> \o Split(SubSeq(s, i + 1, Len(s)), sep)

\* strings.HasSuffix(s, suffix)
HasSuffix(s, suffix) ==
    /\ Len(s) >= Len(suffix)
    /\ SubSeq(s, Len(s) - Len(suffix) + 1, Len(s)) = suffix

EmptyString == <<>>
Str_v1 == <<"v", "1">>
Str_v2 == <<"v", "2">>
Str_a == <<"a">>
Str_g == <<"g">>
Str_a_v1 == <<"a", "/", "v", "1">>
Str_a_v2 == <<"a", "/", "v", "2">>
Str_status == <<"/", "s", "t", "a", "t", "u", "s">>

Str_Pod == <<"P", "o", "d">>
Str_Job == <<"J", "o", "b">>
Str_pods == <<"p", "o", "d", "s">>
Str_jobs == <<"j", "o", "b", "s">>
Str_substatus == <<"/", "s", "u", "b", "s", "t", "a", "t", "u", "s">>

(***************************************************************************)
(* Values of the Go types.                                                 *)
(***************************************************************************)

\* Go maps: the empty map, and m[k] = v.
EmptyMap == <<>>
MapPut(m, k, v) == [x \in (DOMAIN m) \cup {k} |-> IF x = k THEN v ELSE m[x]]
MapGet(m, k, default) == IF k \in DOMAIN m THEN m[k] ELSE default

\* The nil error, and the errors the discovery client can return.
NoErr == "nil"
DiscoveryErrors == {"connection refused", "forbidden"}

\* The nil proto.Schema and the nil backing array.
NoSchema == [gvk |-> <<>>, fields |-> {}]
NilArray == <<>>

\* A Resources value (map[string][]*Resource): nil, or a map from names to
\* sequences of Resource addresses.
NilCatalog == [nil |-> TRUE, m |-> EmptyMap]
Catalog(m) == [nil |-> FALSE, m |-> m]

\* A nil slice of *SubResource.
NilSlice == [array |-> NilArray, len |-> 0]

\* v1.APIResource, reduced to the fields the package reads or writes.
APIResource(name, kind, group, version) ==
    [Name |-> name, Kind |-> kind, Group |-> group, Version |-> version]

\* schema.GroupVersion
GroupVersion(group, version) == [Group |-> group, Version |-> version]

\* The structural schemas the openapi.Resources collaborator holds, as
\* <<group, version, kind>> -> set of field paths.
OpenAPIFields ==
    MapPut(MapPut(MapPut(MapPut(EmptyMap,
        <<EmptyString, Str_v1, Str_Pod>>, {<<"spec">>, <<"spec", "containers">>, <<"status">>}),
        <<Str_a, Str_v2, Str_Pod>>, {<<"spec">>}),
        <<Str_a, Str_v1, Str_Pod>>, {<<"spec">>, <<"spec", "containers">>, <<"status">>}),
        <<Str_a, Str_v1, Str_Job>>, {<<"spec">>, <<"spec", "parallelism">>, <<"status">>})

\* openapi.Resources.LookupResource
LookupResource(gvk) ==
    IF gvk \in DOMAIN OpenAPIFields
    THEN [gvk |-> gvk, fields |-> OpenAPIFields[gvk]]
    ELSE NoSchema

(***************************************************************************)
(* parse.go: pure helpers of the Parser.                                   *)
(***************************************************************************)

\* Parser.splitGroupVersion: returns <<group, version>>.
splitGroupVersion(gv) ==
    LET parts == Split(gv, Slash)
        group == IF Len(parts) > 1 THEN parts[1] ELSE EmptyString
        version == IF Len(parts) > 1 THEN parts[2]
                   ELSE IF Len(parts) > 0 THEN parts[1]
                   ELSE Str_v1
    IN  <<group, version>>

\* Parser.subResource: <<resource name, subresource name, isSubResource>>.
subResource(r) ==
    LET parts == Split(r.Name, Slash)
    IN  IF Len(parts) > 1 THEN <<parts[1], parts[2], TRUE>>
        ELSE <<parts[1], EmptyString, FALSE>>

\* Parser.resource: <<resource name, isResource>>.
resource(r) ==
    LET s == subResource(r)
    IN  <<s[1], ~s[3]>>

\* Parser.defaultGroupVersion: the descriptor after the call.
defaultGroupVersion(r, group, version) ==
    LET r1 == IF Len(r.Group) = 0 THEN [r EXCEPT !.Group = group] ELSE r
    IN  IF Len(r1.Version) = 0 THEN [r1 EXCEPT !.Group = version] ELSE r1

\* isGroupVersionMatch changed to compare the group only.
isGroupVersionMatch_groupOnly(group, version) ==
    IF Len(apiGroup) > 0 /\ apiGroup # group THEN FALSE
    ELSE TRUE

\* Parser.isGroupVersionMatch
isGroupVersionMatch(group, version) ==
    IF Len(apiGroup) > 0 /\ apiGroup # group THEN FALSE
    ELSE IF Len(apiVersion) > 0 /\ apiVersion # version THEN FALSE
    ELSE TRUE

\* Parser.getOpenAPI: <<schema, found>>.
getOpenAPI(group, version, kind) ==
    LET schema == LookupResource(<<group, version, kind>>)
    IN  IF schema = NoSchema THEN <<NoSchema, FALSE>> ELSE <<schema, TRUE>>

(***************************************************************************)
(* Go slices of *SubResource: [array, len] over the backing arrays, whose  *)
(* length is the capacity. Arrays are named <<region, serial, capacity>>.  *)
(***************************************************************************)
Cap(arrs, s) == IF s.array = NilArray THEN 0 ELSE Len(arrs[s.array])

Elems(arrs, s) == IF s.len = 0 THEN <<>> ELSE SubSeq(arrs[s.array], 1, s.len)

NilSubResource == <<>>

\* append(s, x) by the owner <<region, serial>>: in place when capacity
\* allows, otherwise into a new array of doubled capacity.
\* Returns [arrays, slice].
GoAppend(arrs, s, owner, x) ==
    IF s.len < Cap(arrs, s)
    THEN [arrays |-> [arrs EXCEPT ![s.array][s.len + 1] = x],
          slice  |-> [s EXCEPT !.len = s.len + 1]]
    ELSE LET newcap == IF Cap(arrs, s) = 0 THEN 1 ELSE 2 * Cap(arrs, s)
             a == <<owner[1], owner[2], newcap>>
             content == [i \in 1..newcap |->
                            IF i <= s.len THEN arrs[s.array][i]
                            ELSE IF i = s.len + 1 THEN x
                            ELSE NilSubResource]
         IN  [arrays |-> MapPut(arrs, a, content),
              slice  |-> [array |-> a, len |-> s.len + 1]]

(***************************************************************************)
(* parse.go: indexing. The state threaded through the loops is             *)
(* [resources, bygvr, Rheap, Sheap, arrays].                               *)
(***************************************************************************)
EmptyIndex ==
    [resources |-> EmptyMap, bygvr |-> EmptyMap,
     Rheap |-> EmptyMap, Sheap |-> EmptyMap, arrays |-> EmptyMap]

\* indexAPIResource changed to store the new Resource as the only one of its name.
indexAPIResource_overwrite(st, group, version, r0) ==
    LET r == defaultGroupVersion(r0, group, version)
        nr == resource(r)
        sch == getOpenAPI(group, version, r.Kind)
        addr == <<"catalog", Cardinality(DOMAIN st.Rheap) + 1>>
        newResource == [Resource |-> r,
                        ApiGroupVersion |-> GroupVersion(group, version),
                        Schema |-> sch[1],
                        SubResources |-> NilSlice]
    IN  IF ~nr[2] THEN st
        ELSE IF ~sch[2] THEN st
        ELSE [st EXCEPT
                !.Rheap = MapPut(@, addr, newResource),
                !.resources = MapPut(@, nr[1], <<addr>>),
                !.bygvr = MapPut(@, <<group, version, r.Kind>>, addr)]

\* Body of the inner loop of Parser.indexResources for one descriptor r0.
indexAPIResource(st, group, version, r0) ==
    LET r == defaultGroupVersion(r0, group, version)
        nr == resource(r)
        name == nr[1]
        isRes == nr[2]
        sch == getOpenAPI(group, version, r.Kind)
        addr == <<"catalog", Cardinality(DOMAIN st.Rheap) + 1>>
        newResource == [Resource |-> r,
                        ApiGroupVersion |-> GroupVersion(group, version),
                        Schema |-> sch[1],
                        SubResources |-> NilSlice]
    IN  IF ~isRes THEN st
        ELSE IF ~sch[2] THEN st
        ELSE [st EXCEPT
                !.Rheap = MapPut(@, addr, newResource),
                !.resources = MapPut(@, name, Append(MapGet(@, name, <<>>), addr)),
                !.bygvr = MapPut(@, <<group, version, r.Kind>>, addr)]

RECURSIVE indexAPIResources(_, _, _, _, _)
indexAPIResources(st, group, version, rs, j) ==
    IF j > Len(rs) THEN st
    ELSE indexAPIResources(indexAPIResource(st, group, version, rs[j]),
                           group, version, rs, j + 1)

\* Parser.indexResources, from announcement i on.
RECURSIVE indexResourcesFrom(_, _, _)
indexResourcesFrom(st, list, i) ==
    IF i > Len(list) THEN st
    ELSE LET gv == splitGroupVersion(list[i].GroupVersion)
         IN  IF ~isGroupVersionMatch(gv[1], gv[2])
             THEN indexResourcesFrom(st, list, i + 1)
             ELSE indexResourcesFrom(
                      indexAPIResources(st, gv[1], gv[2], list[i].APIResources, 1),
                      list, i + 1)

\* Parser.indexResources
indexResources(list) == indexResourcesFrom(EmptyIndex, list, 1)

\* Body of the inner loop of Parser.attachSubResources for one descriptor r0.
attachSubResource(st, group, version, r0) ==
    LET r == defaultGroupVersion(r0, group, version)
        sub == subResource(r)
        resourceName == sub[1]
        isSubResource == sub[3]
        sch == getOpenAPI(group, version, r.Kind)
        gvr == <<group, version, resourceName>>
        parent == st.bygvr[gvr]
        saddr == <<"sub", Cardinality(DOMAIN st.Sheap) + 1>>
        subRes == [Resource |-> r,
                   Parent |-> parent,
                   ApiGroupVersion |-> GroupVersion(group, version),
                   Schema |-> sch[1]]
        app == GoAppend(st.arrays, st.Rheap[parent].SubResources, parent, saddr)
        old == st.Rheap[parent].SubResources.array
    IN  IF ~isSubResource THEN st
        ELSE IF ~sch[2] THEN st
        ELSE IF gvr \notin DOMAIN st.bygvr THEN st
        ELSE [st EXCEPT
                !.Sheap = MapPut(@, saddr, subRes),
                \* the array append abandoned is unreachable: it is collected
                !.arrays = [a \in (DOMAIN app.arrays) \ ({old} \ {app.slice.array})
                               |-> app.arrays[a]],
                !.Rheap = [@ EXCEPT ![parent].SubResources = app.slice]]

RECURSIVE attachAPIResources(_, _, _, _, _)
attachAPIResources(st, group, version, rs, j) ==
    IF j > Len(rs) THEN st
    ELSE attachAPIResources(attachSubResource(st, group, version, rs[j]),
                            group, version, rs, j + 1)

RECURSIVE attachSubResourcesFrom(_, _, _)
attachSubResourcesFrom(st, list, i) ==
    IF i > Len(list) THEN st
    ELSE LET gv == splitGroupVersion(list[i].GroupVersion)
         IN  IF ~isGroupVersionMatch(gv[1], gv[2])
             THEN attachSubResourcesFrom(st, list, i + 1)
             ELSE attachSubResourcesFrom(
                      attachAPIResources(st, gv[1], gv[2], list[i].APIResources, 1),
                      list, i + 1)

\* attachSubResources changed to report a subresource whose parent is missing.
attachSubResources_orphanError(list, st) ==
    LET after == attachSubResourcesFrom(st, list, 1)
        orphan(i, j) ==
            LET gv == splitGroupVersion(list[i].GroupVersion)
                r == list[i].APIResources[j]
            IN  /\ isGroupVersionMatch(gv[1], gv[2])
                /\ subResource(r)[3]
                /\ <<gv[1], gv[2], subResource(r)[1]>> \notin DOMAIN st.bygvr
    IN  [index |-> after,
         err |-> IF \E i \in 1..Len(list) :
                        \E j \in 1..Len(list[i].APIResources) : orphan(i, j)
                 THEN "parent not found" ELSE NoErr]

\* Parser.attachSubResources: the index after attaching, and the error returned.
attachSubResources(list, st) ==
    [index |-> attachSubResourcesFrom(st, list, 1), err |-> NoErr]

\* Parser.Resources, given what ServerResources() returned (list, e):
\* [resources, err, Rheap, Sheap, arrays].
Resources(list, e) ==
    IF e # NoErr
    THEN [resources |-> NilCatalog, err |-> e,
          Rheap |-> EmptyMap, Sheap |-> EmptyMap, arrays |-> EmptyMap]
    ELSE LET indexed == indexResources(list)
             attached == attachSubResources(list, indexed)
         IN  [resources |-> Catalog(indexed.resources), err |-> attached.err,
              Rheap |-> attached.index.Rheap, Sheap |-> attached.index.Sheap,
              arrays |-> attached.index.arrays]

(***************************************************************************)
(* Contents of a catalog: names to sequences of Resource values, each with *)
(* the sequence of SubResource addresses its SubResources slice holds.     *)
(***************************************************************************)
ResourceValue(RH, arrs, addr) ==
    [Resource |-> RH[addr].Resource,
     ApiGroupVersion |-> RH[addr].ApiGroupVersion,
     Schema |-> RH[addr].Schema,
     SubResources |-> Elems(arrs, RH[addr].SubResources)]

Contents(cat, RH, arrs) ==
    [n \in DOMAIN cat.m |->
        [i \in 1..Len(cat.m[n]) |-> ResourceValue(RH, arrs, cat.m[n][i])]]

(***************************************************************************)
(* The API server: what ServerResources() lists. The announcements are     *)
(* built from at most MaxAPIResources <<groupVersion, descriptor>> rows;   *)
(* consecutive rows of one groupVersion form one v1.APIResourceList.       *)
(***************************************************************************)
RECURSIVE Announce(_)
Announce(rows) ==
    IF rows = <<>> THEN <<>>
    ELSE LET rest == Announce(Tail(rows))
             h == Head(rows)
         IN  IF rest # <<>> /\ rest[1].GroupVersion = h[1]
             THEN <<[rest[1] EXCEPT !.APIResources = <<h[2]>> \o @]>> \o Tail(rest)
             ELSE <<[GroupVersion |-> h[1], APIResources |-> <<h[2]>>]>> \o rest

ServerLists(groupVersions, pool) ==
    {Announce(rows) : rows \in SeqsUpTo(groupVersions \X pool, MaxAPIResources)}

GroupVersions == {Str_v1, Str_a_v1, Str_a_v2}

APIResourcePool ==
    { APIResource(Str_pods, Str_Pod, EmptyString, EmptyString),
      APIResource(Str_pods \o Str_status, Str_Pod, EmptyString, EmptyString),
      APIResource(Str_Pod \o Str_status, Str_Pod, Str_g, EmptyString),
      APIResource(Str_jobs, Str_Job, EmptyString, Str_v2) }

(***************************************************************************)
(* Specification of discovery: a Parser constructed against some server    *)
(* and some restriction, and calls of Parser.Resources().                  *)
(***************************************************************************)
Idle ==
    /\ discoveryErr = NoErr
    /\ resources = NilCatalog
    /\ err = NoErr
    /\ Rheap = EmptyMap
    /\ Sheap = EmptyMap
    /\ arrays = EmptyMap
    /\ discovered = EmptyMap
    /\ filtered = NilCatalog
    /\ filterArg = <<>>
    /\ receiver = NilCatalog
    /\ filterInput = EmptyMap
    /\ edits = 0
    /\ op = "NewParser"

NoSplit ==
    /\ groupVersion = EmptyString
    /\ splitResult = <<>>

NoCompose ==
    /\ compFilter = <<>>
    /\ compEntity = <<>>
    /\ compResult = <<>>

Init ==
    /\ gvs \in ServerLists(GroupVersions, APIResourcePool)
    /\ apiGroup \in {EmptyString, Str_a}
    /\ apiVersion \in {EmptyString, Str_v1}
    /\ Idle
    /\ NoSplit
    /\ NoCompose

\* A call of Parser.Resources(): ServerResources() returns (gvs, e).
ParserResources ==
    /\ op = "NewParser"
    /\ \E e \in {NoErr} \cup DiscoveryErrors :
        \E res \in {Resources(gvs, e)} :
            /\ discoveryErr' = e
            /\ resources' = res.resources
            /\ err' = res.err
            /\ Rheap' = res.Rheap
            /\ Sheap' = res.Sheap
            /\ arrays' = res.arrays
            /\ discovered' = Contents(res.resources, res.Rheap, res.arrays)
    /\ op' = "Resources"
    /\ UNCHANGED <<gvs, apiGroup, apiVersion, filterVars, splitVars, compVars>>

Next == ParserResources

Spec == Init /\ [][Next]_vars

(***************************************************************************)
(* Specification of splitGroupVersion alone, over every groupVersion       *)
(* string of at most MaxGroupVersionLen characters.                        *)
(***************************************************************************)
GroupVersionAlphabet == {"a", "v", "1", Slash}

NoServer ==
    /\ gvs = <<>>
    /\ apiGroup = EmptyString
    /\ apiVersion = EmptyString

InitSplit ==
    /\ NoServer
    /\ Idle
    /\ NoCompose
    /\ groupVersion \in SeqsUpTo(GroupVersionAlphabet, MaxGroupVersionLen)
    /\ splitResult = <<>>

SplitGroupVersion ==
    /\ op = "NewParser"
    /\ splitResult' = splitGroupVersion(groupVersion)
    /\ op' = "splitGroupVersion"
    /\ UNCHANGED <<parserVars, filterVars, compVars, groupVersion>>

SpecSplit == InitSplit /\ [][SplitGroupVersion]_vars

(***************************************************************************)
(* resource.go and filter.go: field presence and the filters. A Filter is  *)
(* [type, Filters, path]; Filters is used by andFilter and orFilter, path  *)
(* by fieldFilter.                                                         *)
(***************************************************************************)

\* hasField: every prefix of the path is a field of the schema.
hasField(schema, path) ==
    \A k \in 1..Len(path) : SubSeq(path, 1, k) \in schema.fields

\* Resource.HasField
HasField(r, path) == hasField(r.Schema, path)

NewEmptyFilter == [type |-> "emptyFilter", Filters |-> <<>>, path |-> <<>>]
NewSkipSubresourceFilter == [type |-> "skipSubresourceFilter", Filters |-> <<>>, path |-> <<>>]
NewFieldFilter(path) == [type |-> "fieldFilter", Filters |-> <<>>, path |-> path]
AndFilter(fs) == [type |-> "andFilter", Filters |-> fs, path |-> <<>>]
OrFilter(fs) == [type |-> "orFilter", Filters |-> fs, path |-> <<>>]

emptyFilter_Resource(r) == TRUE
emptyFilter_SubResource(sr) == TRUE

\* skipSubresourceFilter.SubResource changed to reject every name that
\* ends in "status".
skipSubresourceFilter_SubResource_anyStatus(sr) ==
    ~HasSuffix(sr.Resource.Name, Tail(Str_status))

\* skipSubresourceFilter.SubResource
skipSubresourceFilter_SubResource(sr) == ~HasSuffix(sr.Resource.Name, Str_status)

\* fieldFilter.Resource
fieldFilter_Resource(f, r) == HasField(r, f.path)

RECURSIVE Filter_Resource(_, _)
RECURSIVE Filter_SubResource(_, _)

\* andFilter.Resource, from child i on.
RECURSIVE andFilter_Resource(_, _, _)
andFilter_Resource(fs, r, i) ==
    IF i > Len(fs) THEN TRUE
    ELSE IF ~Filter_Resource(fs[i], r) THEN FALSE
    ELSE andFilter_Resource(fs, r, i + 1)

\* andFilter.SubResource, from child i on.
RECURSIVE andFilter_SubResource(_, _, _)
andFilter_SubResource(fs, sr, i) ==
    IF i > Len(fs) THEN TRUE
    ELSE IF ~Filter_SubResource(fs[i], sr) THEN FALSE
    ELSE andFilter_SubResource(fs, sr, i + 1)

\* orFilter.Resource changed to accept when it holds no child.
RECURSIVE orFilter_Resource_emptyAccepts(_, _, _)
orFilter_Resource_emptyAccepts(fs, r, i) ==
    IF Len(fs) = 0 THEN TRUE
    ELSE IF i > Len(fs) THEN FALSE
    ELSE IF Filter_Resource(fs[i], r) THEN TRUE
    ELSE orFilter_Resource_emptyAccepts(fs, r, i + 1)

\* orFilter.Resource, from child i on.
RECURSIVE orFilter_Resource(_, _, _)
orFilter_Resource(fs, r, i) ==
    IF i > Len(fs) THEN FALSE
    ELSE IF Filter_Resource(fs[i], r) THEN TRUE
    ELSE orFilter_Resource(fs, r, i + 1)

\* orFilter.SubResource, from child i on.
RECURSIVE orFilter_SubResource(_, _, _)
orFilter_SubResource(fs, sr, i) ==
    IF i > Len(fs) THEN FALSE
    ELSE IF Filter_SubResource(fs[i], sr) THEN TRUE
    ELSE orFilter_SubResource(fs, sr, i + 1)

\* Filter.Resource, dispatched on the dynamic type of f.
Filter_Resource(f, r) ==
    CASE f.type = "emptyFilter" -> emptyFilter_Resource(r)
      [] f.type = "skipSubresourceFilter" -> emptyFilter_Resource(r)
      [] f.type = "fieldFilter" -> fieldFilter_Resource(f, r)
      [] f.type = "andFilter" -> andFilter_Resource(f.Filters, r, 1)
      [] f.type = "orFilter" -> orFilter_Resource(f.Filters, r, 1)

\* Filter.SubResource, dispatched on the dynamic type of f.
Filter_SubResource(f, sr) ==
    CASE f.type = "emptyFilter" -> emptyFilter_SubResource(sr)
      [] f.type = "skipSubresourceFilter" -> skipSubresourceFilter_SubResource(sr)
      [] f.type = "fieldFilter" -> emptyFilter_SubResource(sr)
      [] f.type = "andFilter" -> andFilter_SubResource(f.Filters, sr, 1)
      [] f.type = "orFilter" -> orFilter_SubResource(f.Filters, sr, 1)

(***************************************************************************)
(* Specification of filter evaluation alone: every filter built from at    *)
(* most MaxFilterNodes filter values, evaluated on a Resource and a        *)
(* SubResource.                                                            *)
(***************************************************************************)
PathContainers == <<"spec", "containers">>

LeafFilters == {NewEmptyFilter, NewSkipSubresourceFilter, NewFieldFilter(PathContainers)}

RECURSIVE FilterSize(_)
FilterSize(f) ==
    LET sizes == [i \in 1..Len(f.Filters) |-> FilterSize(f.Filters[i])]
        sum[i \in 0..Len(f.Filters)] == IF i = 0 THEN 0 ELSE sizes[i] + sum[i - 1]
    IN  1 + sum[Len(f.Filters)]

RECURSIVE FilterTrees(_)
RECURSIVE FilterForests(_)
\* The filters of at most n filter values (n >= 1).
FilterTrees(n) ==
    LeafFilters
        \cup {AndFilter(fs) : fs \in FilterForests(n - 1)}
        \cup {OrFilter(fs) : fs \in FilterForests(n - 1)}

\* The child lists of at most m filter values in total.
FilterForests(m) ==
    IF m = 0 THEN {<<>>}
    ELSE {<<>>} \cup
         UNION { {<<t>> \o rest : rest \in FilterForests(m - FilterSize(t))} :
                    t \in FilterTrees(m) }

SampleResource(kind) ==
    [Resource |-> APIResource(Str_pods, kind, EmptyString, EmptyString),
     ApiGroupVersion |-> GroupVersion(Str_a, Str_v1),
     Schema |-> LookupResource(<<Str_a, Str_v1, kind>>),
     SubResources |-> NilSlice]

SampleSubResource(name) ==
    [Resource |-> APIResource(name, Str_Pod, EmptyString, EmptyString),
     Parent |-> <<"catalog", 1>>,
     ApiGroupVersion |-> GroupVersion(Str_a, Str_v1),
     Schema |-> LookupResource(<<Str_a, Str_v1, Str_Pod>>)]

InitCompose ==
    /\ NoServer
    /\ Idle
    /\ NoSplit
    /\ compFilter \in FilterTrees(MaxFilterNodes)
    /\ compEntity \in [r : {SampleResource(Str_Pod), SampleResource(Str_Job)},
                        sr : {SampleSubResource(Str_Pod \o Str_status),
                              SampleSubResource(Str_Pod \o Str_substatus)}]
    /\ compResult = <<>>

\* Both predicates of the filter are called on the entities.
Evaluate ==
    /\ op = "NewParser"
    /\ compResult' = [resource |-> Filter_Resource(compFilter, compEntity.r),
                       subResource |-> Filter_SubResource(compFilter, compEntity.sr)]
    /\ op' = "Evaluate"
    /\ UNCHANGED <<parserVars, filterVars, splitVars, compFilter, compEntity>>

SpecCompose == InitCompose /\ [][Evaluate]_vars

(***************************************************************************)
(* resources.go: Resources.Filter. New Resource objects are allocated in   *)
(* a region of their own, <<region, serial>>.                              *)
(***************************************************************************)

\* An array abandoned by its only holder is collected.
Release(arrs, old, kept) ==
    [a \in (DOMAIN arrs) \ ({old} \ {kept}) |-> arrs[a]]

\* The loop of Resources.filterSubResources from element i on:
\* [arrays, slice] of the slice built so far.
RECURSIVE filterSubResourcesFrom(_, _, _, _, _)
filterSubResourcesFrom(acc, elems, filter, owner, i) ==
    IF i > Len(elems) THEN acc
    ELSE IF ~Filter_SubResource(filter, Sheap[elems[i]])
         THEN filterSubResourcesFrom(acc, elems, filter, owner, i + 1)
    ELSE LET app == GoAppend(acc.arrays, acc.slice, owner, elems[i])
         IN  filterSubResourcesFrom(
                 [arrays |-> Release(app.arrays, acc.slice.array, app.slice.array),
                  slice |-> app.slice],
                 elems, filter, owner, i + 1)

\* filterSubResources changed to hand back the list it was given when no
\* element is rejected.
filterSubResources_reuseList(res, filter, arrs, owner) ==
    LET elems == Elems(arrs, res.SubResources)
        empty == <<owner[1], owner[2], 0>>
        built == filterSubResourcesFrom(
                     [arrays |-> MapPut(arrs, empty, <<>>),
                      slice |-> [array |-> empty, len |-> 0]],
                     elems, filter, owner, 1)
    IN  IF elems # <<>> /\ \A i \in 1..Len(elems) : Filter_SubResource(filter, Sheap[elems[i]])
        THEN [resource |-> res, arrays |-> arrs]
        ELSE [resource |-> [res EXCEPT !.SubResources = built.slice],
              arrays |-> built.arrays]

\* Resources.filterSubResources on the copy res of a Resource, allocating
\* as owner: [resource, arrays].
filterSubResources(res, filter, arrs, owner) ==
    LET empty == <<owner[1], owner[2], 0>>       \* []*SubResource{}
        built == filterSubResourcesFrom(
                     [arrays |-> MapPut(arrs, empty, <<>>),
                      slice |-> [array |-> empty, len |-> 0]],
                     Elems(arrs, res.SubResources), filter, owner, 1)
    IN  [resource |-> [res EXCEPT !.SubResources = built.slice],
         arrays |-> built.arrays]

\* The inner loop of Resources.Filter changed to skip a Resource left
\* without subresources.
RECURSIVE filterVersionsFrom_dropBare(_, _, _, _, _, _)
filterVersionsFrom_dropBare(acc, k, v, filter, region, i) ==
    IF i > Len(v) THEN acc
    ELSE IF ~Filter_Resource(filter, acc.Rheap[v[i]])
         THEN filterVersionsFrom_dropBare(acc, k, v, filter, region, i + 1)
    ELSE LET addr == <<region, acc.serial + 1>>
             copy == filterSubResources(acc.Rheap[v[i]], filter, acc.arrays, addr)
         IN  IF copy.resource.SubResources.len = 0
             THEN filterVersionsFrom_dropBare(acc, k, v, filter, region, i + 1)
             ELSE filterVersionsFrom_dropBare(
                 [filtered |-> MapPut(acc.filtered, k,
                                      Append(MapGet(acc.filtered, k, <<>>), addr)),
                  Rheap |-> MapPut(acc.Rheap, addr, copy.resource),
                  arrays |-> copy.arrays,
                  serial |-> acc.serial + 1],
                 k, v, filter, region, i + 1)

\* The inner loop of Resources.Filter over the list v of key k, from i on.
\* acc is [filtered, Rheap, arrays, serial].
RECURSIVE filterVersionsFrom(_, _, _, _, _, _)
filterVersionsFrom(acc, k, v, filter, region, i) ==
    IF i > Len(v) THEN acc
    ELSE IF ~Filter_Resource(filter, acc.Rheap[v[i]])
         THEN filterVersionsFrom(acc, k, v, filter, region, i + 1)
    ELSE LET addr == <<region, acc.serial + 1>>
             copy == filterSubResources(acc.Rheap[v[i]], filter, acc.arrays, addr)
         IN  filterVersionsFrom(
                 [filtered |-> MapPut(acc.filtered, k,
                                      Append(MapGet(acc.filtered, k, <<>>), addr)),
                  Rheap |-> MapPut(acc.Rheap, addr, copy.resource),
                  arrays |-> copy.arrays,
                  serial |-> acc.serial + 1],
                 k, v, filter, region, i + 1)

\* The outer loop of Resources.Filter over the keys not yet visited.
RECURSIVE filterKeys(_, _, _, _, _)
filterKeys(acc, m, keys, filter, region) ==
    IF keys = {} THEN acc
    ELSE LET k == CHOOSE x \in keys : TRUE
         IN  filterKeys(filterVersionsFrom(acc, k, m[k], filter, region, 1),
                        m, keys \ {k}, filter, region)

\* Resources.Filter on the catalog r: [filtered, Rheap, arrays, serial].
Filter(r, filter, region, RH, arrs) ==
    filterKeys([filtered |-> EmptyMap, Rheap |-> RH, arrays |-> arrs, serial |-> 0],
               r.m, DOMAIN r.m, filter, region)

\* What the garbage collector keeps: the Resource objects the catalogs cats
\* or a Parent refer to, and the arrays their slices refer to.
Live(cats, RH, arrs) ==
    LET inCat(c) == UNION {{c.m[n][i] : i \in 1..Len(c.m[n])} : n \in DOMAIN c.m}
        liveR == (UNION {inCat(c) : c \in cats} \cup {Sheap[x].Parent : x \in DOMAIN Sheap})
                    \cap DOMAIN RH
        liveA == {RH[a].SubResources.array : a \in liveR} \cap DOMAIN arrs
    IN  [Rheap |-> [a \in liveR |-> RH[a]], arrays |-> [a \in liveA |-> arrs[a]]]

OtherRegion(region) == IF region = "f1" THEN "f2" ELSE "f1"

RegionOf(cat) ==
    IF DOMAIN cat.m = {} THEN "f2"
    ELSE LET n == CHOOSE x \in DOMAIN cat.m : TRUE IN cat.m[n][1][1]

(***************************************************************************)
(* Specification of filtering: a discovered catalog, Filter calls on it    *)
(* and on filtered catalogs, and edits by the caller of the SubResources   *)
(* list of a filtered copy.                                                *)
(***************************************************************************)
FilterPool ==
    { APIResource(Str_pods, Str_Pod, EmptyString, EmptyString),
      APIResource(Str_jobs, Str_Job, EmptyString, EmptyString),
      APIResource(Str_Pod \o Str_status, Str_Pod, EmptyString, EmptyString),
      APIResource(Str_Pod \o Str_substatus, Str_Pod, EmptyString, EmptyString) }

TestFilters ==
    { NewEmptyFilter,
      NewSkipSubresourceFilter,
      NewFieldFilter(PathContainers),
      AndFilter(<<NewSkipSubresourceFilter, NewFieldFilter(PathContainers)>>) }

InitFilter ==
    /\ gvs \in ServerLists({Str_a_v1}, FilterPool)
    /\ apiGroup = EmptyString
    /\ apiVersion = EmptyString
    /\ Idle
    /\ NoSplit
    /\ NoCompose

\* A call rcv.Filter(f), rcv being the discovered catalog or the catalog the
\* previous Filter call returned. The caller keeps the discovered catalog,
\* rcv and the result; what it held before is collected.
FilterCall ==
    /\ op # "NewParser"
    /\ \E f \in TestFilters : \E chained \in {FALSE} \cup {~filtered.nil} :
        LET rcv == IF chained THEN filtered ELSE resources
            region == IF chained THEN OtherRegion(RegionOf(filtered)) ELSE "f1"
        IN \E pre \in {Live({resources, rcv}, Rheap, arrays)} :
           \E res \in {Filter(rcv, f, region, pre.Rheap, pre.arrays)} :
           \E live \in {Live({resources, rcv, Catalog(res.filtered)}, res.Rheap, res.arrays)} :
              /\ filtered' = Catalog(res.filtered)
              /\ Rheap' = live.Rheap
              /\ arrays' = live.arrays
              /\ filterArg' = f
              /\ receiver' = rcv
              /\ filterInput' = Contents(rcv, Rheap, arrays)
    /\ op' = "Filter"
    /\ UNCHANGED <<gvs, apiGroup, apiVersion, discoveryErr, resources, err, Sheap,
                   discovered, edits, splitVars, compVars>>

\* The caller appends the SubResource x to the list of a filtered copy:
\* c.SubResources = append(c.SubResources, x).
AppendToCopy ==
    /\ edits < MaxEdits
    /\ ~filtered.nil
    /\ \E n \in DOMAIN filtered.m : \E i \in 1..Len(filtered.m[n]) : \E x \in DOMAIN Sheap :
        LET c == filtered.m[n][i]
        IN  \E app \in {GoAppend(arrays, Rheap[c].SubResources, c, x)} :
            \E live \in {Live({resources, filtered, receiver},
                              [Rheap EXCEPT ![c].SubResources = app.slice], app.arrays)} :
               /\ Rheap' = live.Rheap
               /\ arrays' = live.arrays
    /\ edits' = edits + 1
    /\ op' = "append"
    /\ UNCHANGED <<gvs, apiGroup, apiVersion, discoveryErr, resources, err, Sheap,
                   discovered, filtered, filterArg, receiver, filterInput, splitVars, compVars>>

\* The caller removes element j from the list of a filtered copy:
\* c.SubResources = append(c.SubResources[:j], c.SubResources[j+1:]...).
RemoveFromCopy ==
    /\ edits < MaxEdits
    /\ ~filtered.nil
    /\ \E n \in DOMAIN filtered.m : \E i \in 1..Len(filtered.m[n]) :
        LET c == filtered.m[n][i]
            s == Rheap[c].SubResources
        IN  \E j \in 1..s.len :
               /\ arrays' = [arrays EXCEPT ![s.array] =
                                [q \in DOMAIN @ |-> IF q >= j /\ q < s.len THEN @[q + 1] ELSE @[q]]]
               /\ Rheap' = [Rheap EXCEPT ![c].SubResources.len = s.len - 1]
    /\ edits' = edits + 1
    /\ op' = "remove"
    /\ UNCHANGED <<gvs, apiGroup, apiVersion, discoveryErr, resources, err, Sheap,
                   discovered, filtered, filterArg, receiver, filterInput, splitVars, compVars>>

NextFilter ==
    \/ ParserResources
    \/ FilterCall
    \/ AppendToCopy
    \/ RemoveFromCopy

SpecFilter == InitFilter /\ [][NextFilter]_vars

(***************************************************************************)
(* Properties of Parser.Resources().                                       *)
(***************************************************************************)
Range(f) == {f[x] : x \in DOMAIN f}

HasSlash(name) == \E k \in 1..Len(name) : name[k] = Slash

Returned == op = "Resources" /\ err = NoErr

\* The descriptor occurrences <<announcement, position>> in discovery order.
RECURSIVE OccurrencesFrom(_, _)
OccurrencesFrom(i, j) ==
    IF i > Len(gvs) THEN <<>>
    ELSE IF j > Len(gvs[i].APIResources) THEN OccurrencesFrom(i + 1, 1)
    ELSE <<<<i, j>>>> \o OccurrencesFrom(i, j + 1)

Occurrences == OccurrencesFrom(1, 1)

Descriptor(o) == gvs[o[1]].APIResources[o[2]]
DerivedGroup(o) == splitGroupVersion(gvs[o[1]].GroupVersion)[1]
DerivedVersion(o) == splitGroupVersion(gvs[o[1]].GroupVersion)[2]
Resolves(o) ==
    <<DerivedGroup(o), DerivedVersion(o), Descriptor(o).Kind>> \in DOMAIN OpenAPIFields

\* The Resource and SubResource objects of the returned catalog.
CatalogResources == UNION {Range(resources.m[n]) : n \in DOMAIN resources.m}
SubResourcesOf(a) == Range(Elems(arrays, Rheap[a].SubResources))
CatalogSubResources == UNION {SubResourcesOf(a) : a \in CatalogResources}

\* C1 (as claimed): when a matching announcement lists a top-level descriptor
\* P and, once, a descriptor P/S, both with resolvable schemas, the catalog
\* maps P to a Resource of that announcement whose SubResources hold exactly
\* one SubResource named P/S, whose Parent is that Resource.
C1_SubresourceAttached ==
    Returned =>
        \A i \in 1..Len(gvs) : \A j, k \in 1..Len(gvs[i].APIResources) :
            LET p == Descriptor(<<i, j>>)
                s == Descriptor(<<i, k>>)
                parts == Split(s.Name, Slash)
                once == Cardinality({x \in 1..Len(gvs[i].APIResources) :
                                        Descriptor(<<i, x>>).Name = s.Name}) = 1
            IN  ( /\ isGroupVersionMatch(DerivedGroup(<<i, j>>), DerivedVersion(<<i, j>>))
                  /\ ~HasSlash(p.Name)
                  /\ Len(parts) = 2 /\ parts[1] = p.Name
                  /\ once
                  /\ Resolves(<<i, j>>) /\ Resolves(<<i, k>>) )
                => /\ p.Name \in DOMAIN resources.m
                   /\ \E a \in Range(resources.m[p.Name]) :
                        /\ Rheap[a].ApiGroupVersion =
                               GroupVersion(DerivedGroup(<<i, j>>), DerivedVersion(<<i, j>>))
                        /\ Cardinality({x \in SubResourcesOf(a) :
                                           Sheap[x].Resource.Name = s.Name}) = 1
                        /\ \A x \in SubResourcesOf(a) :
                               Sheap[x].Resource.Name = s.Name => Sheap[x].Parent = a

\* C3: Resources() returns an error exactly when ServerResources() did; it
\* is then that same error with a nil catalog and nothing built. Dropped
\* descriptors (no schema, restriction, orphan) never produce an error.
C3_ErrorOnlyFromDiscovery ==
    op = "Resources" =>
        /\ (err # NoErr) <=> (discoveryErr # NoErr)
        /\ err = discoveryErr
        /\ (err # NoErr) => (resources = NilCatalog /\ Rheap = EmptyMap /\ Sheap = EmptyMap)
        /\ (err = NoErr) => ~resources.nil

\* An orphaned subresource and a descriptor without schema were dropped by a
\* call that returned no error.
C3_Witness ==
    /\ Returned
    /\ \E i \in 1..Len(Occurrences) :
          LET o == Occurrences[i]
          IN  /\ isGroupVersionMatch(DerivedGroup(o), DerivedVersion(o))
              /\ HasSlash(Descriptor(o).Name)
              /\ Resolves(o)
              /\ CatalogSubResources = {}
    /\ \E i \in 1..Len(Occurrences) : ~Resolves(Occurrences[i])

\* What pass 1 is to store under name N: one entry per occurrence, in
\* discovery order, of a descriptor named N without "/" in a matching
\* announcement whose schema resolves.
Indexed(o) ==
    /\ isGroupVersionMatch(DerivedGroup(o), DerivedVersion(o))
    /\ ~HasSlash(Descriptor(o).Name)
    /\ Resolves(o)

ExpectedEntry(o) ==
    [Name |-> Descriptor(o).Name, Kind |-> Descriptor(o).Kind,
     ApiGroupVersion |-> GroupVersion(DerivedGroup(o), DerivedVersion(o)),
     Schema |-> LookupResource(<<DerivedGroup(o), DerivedVersion(o), Descriptor(o).Kind>>)]

Entry(a) ==
    [Name |-> Rheap[a].Resource.Name, Kind |-> Rheap[a].Resource.Kind,
     ApiGroupVersion |-> Rheap[a].ApiGroupVersion, Schema |-> Rheap[a].Schema]

ExpectedUnder(N) ==
    LET os == SelectSeq(Occurrences, LAMBDA o : Indexed(o) /\ Descriptor(o).Name = N)
    IN  [k \in 1..Len(os) |-> ExpectedEntry(os[k])]

ExpectedNames ==
    {Descriptor(Occurrences[i]).Name :
        i \in {x \in 1..Len(Occurrences) : Indexed(Occurrences[x])}}

RECURSIVE SumLen(_, _)
SumLen(m, keys) ==
    IF keys = {} THEN 0
    ELSE LET k == CHOOSE x \in keys : TRUE
         IN  Len(m[k]) + SumLen(m, keys \ {k})

\* C6: pass 1 neither drops nor double-counts: the list under each name is,
\* in discovery order, one distinct Resource per indexed descriptor
\* occurrence; no key and no Resource name contains "/", and every Resource
\* has a schema.
C6_PassOneExact ==
    Returned =>
        /\ DOMAIN resources.m = ExpectedNames
        /\ \A N \in DOMAIN resources.m :
              /\ [k \in 1..Len(resources.m[N]) |-> Entry(resources.m[N][k])]
                    = ExpectedUnder(N)
              /\ ~HasSlash(N)
        /\ Cardinality(CatalogResources) = SumLen(resources.m, DOMAIN resources.m)
        /\ \A a \in CatalogResources :
              ~HasSlash(Rheap[a].Resource.Name) /\ Rheap[a].Schema # NoSchema

\* Two group-versions serve one name, and descriptors were left out for a
\* missing schema and for a "/" in the name.
C6_Witness ==
    /\ Returned
    /\ \E N \in DOMAIN resources.m :
          /\ Len(resources.m[N]) = 2
          /\ Rheap[resources.m[N][1]].ApiGroupVersion
                # Rheap[resources.m[N][2]].ApiGroupVersion
    /\ \E i \in 1..Len(Occurrences) : ~Resolves(Occurrences[i])

\* C7 (as claimed): under a restriction with a non-empty component, every
\* Resource and SubResource of the catalog has exactly the configured
\* (apiGroup, apiVersion) as its ApiGroupVersion.
C7_ExactPair ==
    (Returned /\ (Len(apiGroup) > 0 \/ Len(apiVersion) > 0)) =>
        /\ \A a \in CatalogResources :
              Rheap[a].ApiGroupVersion = GroupVersion(apiGroup, apiVersion)
        /\ \A x \in CatalogSubResources :
              Sheap[x].ApiGroupVersion = GroupVersion(apiGroup, apiVersion)

RestrictionAllows(gv) ==
    /\ Len(apiGroup) > 0 => gv.Group = apiGroup
    /\ Len(apiVersion) > 0 => gv.Version = apiVersion

\* C7 (amended): each non-empty component of the restriction is matched by
\* every Resource and SubResource of the catalog, an empty component
\* restricts nothing, and with both empty no announcement is skipped.
C7_ComponentwiseRestriction ==
    Returned =>
        /\ \A a \in CatalogResources : RestrictionAllows(Rheap[a].ApiGroupVersion)
        /\ \A x \in CatalogSubResources : RestrictionAllows(Sheap[x].ApiGroupVersion)
        /\ \A i \in 1..Len(Occurrences) :
              LET o == Occurrences[i]
              IN  ( /\ ~HasSlash(Descriptor(o).Name) /\ Resolves(o)
                    /\ RestrictionAllows(GroupVersion(DerivedGroup(o), DerivedVersion(o))) )
                  => \E a \in CatalogResources : Entry(a) = ExpectedEntry(o)

\* A version-only restriction kept one announcement and skipped another
\* whose descriptor has a schema.
C7_Witness ==
    /\ Returned
    /\ Len(apiGroup) = 0 /\ Len(apiVersion) > 0
    /\ CatalogResources # {}
    /\ \E i \in 1..Len(Occurrences) :
          LET o == Occurrences[i]
          IN  /\ ~HasSlash(Descriptor(o).Name) /\ Resolves(o)
              /\ DerivedVersion(o) # apiVersion

Defaulted(stored, o) ==
    /\ stored.Name = Descriptor(o).Name
    /\ stored.Kind = Descriptor(o).Kind
    /\ stored.Group = IF Len(Descriptor(o).Group) > 0 THEN Descriptor(o).Group
                       ELSE DerivedGroup(o)
    /\ stored.Version = IF Len(Descriptor(o).Version) > 0 THEN Descriptor(o).Version
                         ELSE DerivedVersion(o)

\* C10 (as claimed): every stored descriptor keeps a non-empty source Group
\* and Version, and takes an empty one from its announcement.
C10_DescriptorDefaulted ==
    Returned =>
        /\ \A a \in CatalogResources :
              \E i \in 1..Len(Occurrences) :
                 /\ Rheap[a].ApiGroupVersion =
                       GroupVersion(DerivedGroup(Occurrences[i]), DerivedVersion(Occurrences[i]))
                 /\ Defaulted(Rheap[a].Resource, Occurrences[i])
        /\ \A x \in CatalogSubResources :
              \E i \in 1..Len(Occurrences) :
                 /\ Sheap[x].ApiGroupVersion =
                       GroupVersion(DerivedGroup(Occurrences[i]), DerivedVersion(Occurrences[i]))
                 /\ Defaulted(Sheap[x].Resource, Occurrences[i])

(***************************************************************************)
(* Properties of splitGroupVersion.                                        *)
(***************************************************************************)

\* C2 (as claimed): an empty groupVersion string derives version "v1" and
\* the empty group.
C2_EmptyGroupVersionIsV1 ==
    (op = "splitGroupVersion" /\ groupVersion = EmptyString)
        => splitResult = <<EmptyString, Str_v1>>

(***************************************************************************)
(* Properties of the filters.                                              *)
(***************************************************************************)

\* What a filter is to accept: a leaf as its own predicate says, an
\* andFilter what all its children accept, an orFilter what some child accepts.
RECURSIVE AcceptsResource(_, _)
AcceptsResource(f, r) ==
    CASE f.type = "andFilter" ->
            \A i \in 1..Len(f.Filters) : AcceptsResource(f.Filters[i], r)
      [] f.type = "orFilter" ->
            \E i \in 1..Len(f.Filters) : AcceptsResource(f.Filters[i], r)
      [] f.type = "fieldFilter" -> fieldFilter_Resource(f, r)
      [] OTHER -> emptyFilter_Resource(r)

RECURSIVE AcceptsSubResource(_, _)
AcceptsSubResource(f, sr) ==
    CASE f.type = "andFilter" ->
            \A i \in 1..Len(f.Filters) : AcceptsSubResource(f.Filters[i], sr)
      [] f.type = "orFilter" ->
            \E i \in 1..Len(f.Filters) : AcceptsSubResource(f.Filters[i], sr)
      [] f.type = "skipSubresourceFilter" -> skipSubresourceFilter_SubResource(sr)
      [] OTHER -> emptyFilter_SubResource(sr)

\* C8: at every nesting depth an andFilter accepts exactly what all its
\* children accept and an orFilter exactly what some child accepts, for both
\* predicates; so an empty andFilter accepts and an empty orFilter rejects.
C8_AndOrComposition ==
    op = "Evaluate" =>
        /\ compResult.resource = AcceptsResource(compFilter, compEntity.r)
        /\ compResult.subResource = AcceptsSubResource(compFilter, compEntity.sr)
        /\ (compFilter.type = "andFilter" /\ compFilter.Filters = <<>>)
              => (compResult.resource /\ compResult.subResource)
        /\ (compFilter.type = "orFilter" /\ compFilter.Filters = <<>>)
              => (~compResult.resource /\ ~compResult.subResource)

\* An andFilter holding an orFilter that holds children was evaluated, and
\* the two predicates differ.
C8_Witness ==
    /\ op = "Evaluate"
    /\ compFilter.type = "andFilter"
    /\ \E i \in 1..Len(compFilter.Filters) :
          /\ compFilter.Filters[i].type = "orFilter"
          /\ Len(compFilter.Filters[i].Filters) = 2
    /\ compResult.resource /\ ~compResult.subResource

(***************************************************************************)
(* Properties of Resources.Filter.                                         *)
(***************************************************************************)
AddressesOf(cat) == UNION {Range(cat.m[n]) : n \in DOMAIN cat.m}

\* What Filter(f) is to return for a catalog of contents input: under each
\* name the accepted Resources in order, each with the accepted part of its
\* SubResources; a name with no accepted Resource is absent.
ExpectedFilter(input, f) ==
    LET kept(n) == SelectSeq(input[n], LAMBDA R : Filter_Resource(f, R))
        names == {n \in DOMAIN input : kept(n) # <<>>}
    IN  [n \in names |->
            [i \in 1..Len(kept(n)) |->
                [kept(n)[i] EXCEPT !.SubResources =
                    SelectSeq(@, LAMBDA x : Filter_SubResource(f, Sheap[x]))]]]

\* C4: Filter(f) lists under each name, in order, a copy of exactly the
\* Resources f's resource predicate accepts, each with exactly the
\* subsequence of its SubResources f's subresource predicate accepts; an
\* accepted Resource stays even with no subresource left.
C4_FilterResult ==
    op = "Filter" =>
        Contents(filtered, Rheap, arrays) = ExpectedFilter(filterInput, filterArg)

\* One Resource was rejected and another kept although all its
\* subresources were removed.
C4_Witness ==
    /\ op = "Filter"
    /\ \E n \in DOMAIN filterInput : n \notin DOMAIN filtered.m
    /\ \E n \in DOMAIN filtered.m : \E i \in 1..Len(filtered.m[n]) :
          /\ Rheap[filtered.m[n][i]].SubResources.len = 0
          /\ \E j \in 1..Len(filterInput[n]) : filterInput[n][j].SubResources # <<>>

\* C5: Filter calls and edits of a filtered copy's SubResources list leave
\* the discovered catalog, and the catalog Filter was called on, as they
\* were; the result shares no Resource object and no SubResources array with
\* either.
C5_FilterLeavesInputIntact ==
    op \in {"Filter", "append", "remove"} =>
        /\ Contents(resources, Rheap, arrays) = discovered
        /\ op = "Filter" => Contents(receiver, Rheap, arrays) = filterInput
        /\ \A a \in AddressesOf(filtered) :
              \A b \in AddressesOf(resources) \cup AddressesOf(receiver) :
                 /\ a # b
                 /\ Rheap[a].SubResources.array # Rheap[b].SubResources.array

\* The caller removed an element from a copy made by the accept-all filter
\* of a Resource that has subresources.
C5_Witness ==
    /\ op = "remove"
    /\ filterArg = NewEmptyFilter
    /\ \E n \in DOMAIN filtered.m : \E i \in 1..Len(filtered.m[n]) :
          /\ Len(filterInput[n][i].SubResources) = 2
          /\ Rheap[filtered.m[n][i]].SubResources.len = 1

EndsInStatus(name) ==
    \E k \in 0..Len(name) : name = SubSeq(name, 1, k) \o Str_status

\* C9: Filter with the skip-status-subresource filter keeps every Resource,
\* under the same names and in the same order, and removes from each
\* SubResources list exactly the subresources whose name ends in "/status".
C9_SkipStatusOnly ==
    (op = "Filter" /\ filterArg = NewSkipSubresourceFilter) =>
        LET result == Contents(filtered, Rheap, arrays)
        IN  /\ DOMAIN result = DOMAIN filterInput
            /\ \A n \in DOMAIN result :
                  /\ Len(result[n]) = Len(filterInput[n])
                  /\ \A i \in 1..Len(result[n]) :
                        result[n][i] =
                            [filterInput[n][i] EXCEPT !.SubResources =
                                SelectSeq(@, LAMBDA x : ~EndsInStatus(Sheap[x].Resource.Name))]

\* A Resource with a "/status" and a "/substatus" subresource lost the
\* first only, and a Resource without subresources was kept.
C9_Witness ==
    /\ op = "Filter" /\ filterArg = NewSkipSubresourceFilter
    /\ \E n \in DOMAIN filterInput : \E i \in 1..Len(filterInput[n]) :
          /\ Len(filterInput[n][i].SubResources) = 2
          /\ Rheap[filtered.m[n][i]].SubResources.len = 1

\* Every SubResource in the list of a Resource of the catalog cat has that
\* Resource as Parent and is in the list of no other Resource of cat.
ParentOwns(cat) ==
    \A R \in AddressesOf(cat) : \A x \in SubResourcesOf(R) :
        /\ Sheap[x].Parent = R
        /\ \A R2 \in AddressesOf(cat) \ {R} : x \notin SubResourcesOf(R2)

\* C11 (as claimed): in the catalog Parser.Resources() returns and in every
\* catalog a sequence of Filter calls returns from it, each SubResource in
\* the SubResources list of a Resource R has Parent identical to R and is in
\* the list of no other Resource of that catalog.
C11_ParentOwnsSubResource ==
    (edits = 0 /\ op \in {"Resources", "Filter"}) =>
        /\ ParentOwns(resources)
        /\ op = "Filter" => ParentOwns(filtered)

====
